---- MODULE Spec2Model ----
(***************************************************************************)
(* Model of upload-secrets.py: one run of main(), from the parsed command  *)
(* line to the exit of the process.                                        *)
(*                                                                         *)
(* Strings are TLA+ strings (\o, Len and SubSeq act on them as Python's +, *)
(* len and slicing do).  A Python dict is modelled with its insertion      *)
(* order where the code iterates over it (secret_mapping) and as a         *)
(* function where it is only looked up (env_vars).  An Optional[str] of    *)
(* dotenv_values is a set holding at most one string: {} is None.          *)
(*                                                                         *)
(* The files, the vault and the terminal are the environment of the        *)
(* program: the files' contents are chosen in Init, the vault's answers    *)
(* are chosen at each call, and what the program does to them is recorded  *)
(* in steps, calls and stdout.                                             *)
(***************************************************************************)
EXTENDS Integers, Sequences, FiniteSets, TLC

VARIABLES
    fs_config,       \* state of app-configs.json: "missing", "malformed", "ok"
    cfg_file,        \* the JSON document in app-configs.json
    fs_env,          \* state of the --env-file path: "missing", "unparsable", "ok"
    dotenv,          \* what dotenv_values returns for the file
    args,            \* argparse namespace: app, environment, dry_run
    pc,              \* position of main()
    config,          \* main: config
    vault_name,      \* main: vault_name
    env_vars,        \* main: env_vars
    secret_mapping,  \* create_secret_mapping / main: secret_mapping
    missing_vars,    \* create_secret_mapping: missing_vars
    idx,             \* position of the running for loop
    credential,      \* upload_secrets: a DefaultAzureCredential exists
    client,          \* upload_secrets: a SecretClient exists
    uploaded_count,  \* upload_secrets: uploaded_count
    failed_count,    \* upload_secrets: failed_count
    exit_status,     \* exit status of the process, -1 while it runs
    steps,           \* the functions main has called, in order
    calls,           \* the set_secret calls the vault has received, in order
    stdout           \* what has been printed, in order

vars == << fs_config, cfg_file, fs_env, dotenv, args, pc, config, vault_name,
           env_vars, secret_mapping, missing_vars, idx, credential, client,
           uploaded_count, failed_count, exit_status, steps, calls, stdout >>

inputs == << fs_config, cfg_file, fs_env, dotenv, args >>

(***************************************************************************)
(* Bounds of the model.                                                    *)
(***************************************************************************)
MaxSecrets == 2

AppNames == {"my-web-app", "api"}
EnvironmentChoices == {"dev", "staging", "prod"}
EnvVarNames == {"DB_URL", "API_KEY"}
VaultKeys == {"db-url", "api-key"}
SecretValues == {"", "abc", "abcd", "abcde", "s3cr3t-pw"}

\* The sequences over S of length at most n.
SeqsUpTo(S, n) == UNION {[1..k -> S] : k \in 0..n}

\* The functions from a subset of D to R.
PartialFunctions(D, R) == UNION {[K -> R] : K \in SUBSET D}

SecretDescriptors == [env_var : EnvVarNames, vault_key : VaultKeys]

ConfigApplications ==
    { [a \in apps |-> [environments |-> envs, secrets |-> secrets]] :
        apps \in {{"my-web-app"}, AppNames},
        envs \in {{"dev", "prod"}},
        secrets \in SeqsUpTo(SecretDescriptors, MaxSecrets) }

\* Documents of app-configs.json: with and without the "vault_name" key.
ConfigDocuments ==
    { [vault_name |-> "kv-shared", applications |-> apps] : apps \in ConfigApplications }
    \cup { [applications |-> apps] : apps \in {[a \in {"my-web-app"} |->
             [environments |-> {"dev"}, secrets |-> << >>]]} }

DefaultDocument ==
    [vault_name |-> "kv-shared",
     applications |-> [a \in {"my-web-app"} |-> [environments |-> {"dev"}, secrets |-> << >>]]]

\* Results of dotenv_values: each key maps to None ({}) or to a string.  A key that
\* begins with "#" is present or not, with a value the filter would otherwise keep.
DotenvResults ==
    { [k \in DOMAIN base \cup note |-> IF k \in note THEN {"abc"} ELSE base[k]] :
        base \in PartialFunctions(EnvVarNames, {{}} \cup {{v} : v \in SecretValues}),
        note \in {{}, {"#NOTE"}} }

\* The namespaces parse_args returns: --environment is one of the declared choices.
ArgNamespaces ==
    [app : AppNames, environment : EnvironmentChoices, dry_run : BOOLEAN]

(***************************************************************************)
(* Console output.                                                         *)
(***************************************************************************)
Msg(level, text, arg, n) == [level |-> level, text |-> text, arg |-> arg, n |-> n]

log_info(text, arg, n) == Msg("INFO", text, arg, n)
log_success(text, arg, n) == Msg("SUCCESS", text, arg, n)
log_warning(text, arg, n) == Msg("WARNING", text, arg, n)
log_error(text, arg, n) == Msg("ERROR", text, arg, n)

\* A bare print(): the dry-run line "{secret_name} = {masked_value}".
print_line(name, masked) == Msg("PRINT", name, masked, 0)

(***************************************************************************)
(* Pure helpers.                                                           *)
(***************************************************************************)
\* str.startswith for a one-character prefix.
StartsWith(s, c) == Len(s) >= 1 /\ SubSeq(s, 1, 1) = c

\* Python truthiness of an Optional[str]: None and "" are false.
Truthy(v) == \E s \in v : Len(s) > 0

\* The str held by a non-None Optional[str].
StrOf(v) == CHOOSE s \in v : TRUE

\* load_env_file's filter, with None kept: what a test of "v is not None" would keep.
FilterEnvKeepEmpty(parsed) ==
    [k \in {x \in DOMAIN parsed : parsed[x] # {} /\ ~StartsWith(x, "#")} |-> StrOf(parsed[k])]

\* load_env_file's filter without the test of the key.
FilterEnvKeepComments(parsed) ==
    [k \in {x \in DOMAIN parsed : Truthy(parsed[x])} |-> StrOf(parsed[k])]

\* {k: v for k, v in env_vars.items() if v and not k.startswith("#")}
FilterEnv(parsed) ==
    [k \in {x \in DOMAIN parsed : Truthy(parsed[x]) /\ ~StartsWith(x, "#")} |-> StrOf(parsed[k])]

\* The naming convention with application and environment exchanged.
SecretNameEnvFirst(app_name, environment, vault_key) ==
    environment \o "-" \o app_name \o "-" \o vault_key

\* f"{app_name}-{environment}-{vault_key}"
SecretName(app_name, environment, vault_key) ==
    app_name \o "-" \o environment \o "-" \o vault_key

\* The positions of key k in the ordered dict d (at most one).
DictIndex(d, k) == {i \in 1..Len(d) : d[i].name = k}

\* A list append in place of the dict assignment: a repeated key is kept twice.
DictPutAppend(d, k, v) == Append(d, [name |-> k, value |-> v])

\* d[k] = v on an insertion-ordered dict: a key already there keeps its position.
DictPut(d, k, v) ==
    IF DictIndex(d, k) = {}
    THEN Append(d, [name |-> k, value |-> v])
    ELSE [i \in 1..Len(d) |-> IF d[i].name = k THEN [name |-> k, value |-> v] ELSE d[i]]

\* The number of leading characters the dry run shows.
MaskKeep == 4

RECURSIVE Stars(_)
\* "*" * n
Stars(n) == IF n <= 0 THEN "" ELSE "*" \o Stars(n - 1)

\* The mask with the comparison off by one: a value of length 4 is shown whole.
MaskAtLeast(secret_value) ==
    IF Len(secret_value) >= MaskKeep
    THEN SubSeq(secret_value, 1, MaskKeep) \o Stars(Len(secret_value) - MaskKeep)
    ELSE "****"

\* secret_value[:4] + "*" * (len(secret_value) - 4) if len(secret_value) > 4 else "****"
Mask(secret_value) ==
    IF Len(secret_value) > MaskKeep
    THEN SubSeq(secret_value, 1, MaskKeep) \o Stars(Len(secret_value) - MaskKeep)
    ELSE "****"

RECURSIVE DryRunLines(_)
\* The lines the dry-run loop prints for the entries of d, in order.
DryRunLines(d) ==
    IF d = << >> THEN << >>
    ELSE << print_line(Head(d).name, Mask(Head(d).value)) >> \o DryRunLines(Tail(d))

\* log_warning for each element of missing, in order.
MissingLines(missing) ==
    [i \in 1..Len(missing) |-> log_warning("  - {var}", missing[i], 0)]

(***************************************************************************)
(* Initial states: the files and the command line.                         *)
(***************************************************************************)
Init ==
    /\ fs_config \in {"missing", "malformed", "ok"}
    /\ cfg_file \in (IF fs_config = "ok" THEN ConfigDocuments ELSE {DefaultDocument})
    /\ fs_env \in {"missing", "unparsable", "ok"}
    /\ dotenv \in (IF fs_env = "ok" THEN DotenvResults ELSE {<< >>})
    /\ args \in ArgNamespaces
    /\ pc = "load_config"
    /\ config = << >>
    /\ vault_name = ""
    /\ env_vars = << >>
    /\ secret_mapping = << >>
    /\ missing_vars = << >>
    /\ idx = 1
    /\ credential = FALSE
    /\ client = FALSE
    /\ uploaded_count = 0
    /\ failed_count = 0
    /\ exit_status = -1
    /\ steps = << >>
    /\ calls = << >>
    /\ stdout = << >>

\* sys.exit(status), an uncaught exception (status 1), or main returning (status 0).
Exit(status) ==
    /\ pc' = "exited"
    /\ exit_status' = status

(***************************************************************************)
(* main, lines 217-222: the two loaders.                                   *)
(***************************************************************************)
\* config = load_config()
LoadConfig ==
    /\ pc = "load_config"
    /\ steps' = Append(steps, "load_config")
    /\ IF fs_config = "missing"
       THEN /\ stdout' = Append(stdout, log_error("Configuration file not found", "", 0))
            /\ Exit(1)
            /\ UNCHANGED config
       ELSE IF fs_config = "malformed"
       THEN /\ stdout' = Append(stdout, log_error("Failed to parse configuration file", "", 0))
            /\ Exit(1)
            /\ UNCHANGED config
       ELSE /\ config' = cfg_file
            /\ stdout' = Append(stdout, log_info("Configuration loaded successfully", "", 0))
            /\ pc' = "vault_name"
            /\ UNCHANGED exit_status
    /\ UNCHANGED << inputs, vault_name, env_vars, secret_mapping, missing_vars, idx,
                    credential, client, uploaded_count, failed_count, calls >>

\* vault_name = config["vault_name"]: a KeyError is not caught and ends the process.
ReadVaultName ==
    /\ pc = "vault_name"
    /\ IF "vault_name" \in DOMAIN config
       THEN /\ vault_name' = config.vault_name
            /\ pc' = "load_env_file"
            /\ UNCHANGED exit_status
       ELSE /\ Exit(1)
            /\ UNCHANGED vault_name
    /\ UNCHANGED << inputs, config, env_vars, secret_mapping, missing_vars, idx, credential,
                    client, uploaded_count, failed_count, steps, calls, stdout >>

\* env_vars = load_env_file(args.env_file)
LoadEnvFile ==
    /\ pc = "load_env_file"
    /\ steps' = Append(steps, "load_env_file")
    /\ IF fs_env = "missing"
       THEN /\ stdout' = Append(stdout, log_error("Environment file not found", "", 0))
            /\ Exit(1)
            /\ UNCHANGED env_vars
       ELSE IF fs_env = "unparsable"
       THEN /\ stdout' = Append(stdout, log_error("Failed to load environment file", "", 0))
            /\ Exit(1)
            /\ UNCHANGED env_vars
       ELSE /\ env_vars' = FilterEnv(dotenv)
            /\ stdout' = Append(stdout,
                   log_info("Loaded {n} environment variables", "", Cardinality(DOMAIN env_vars')))
            /\ pc' = "validate_app"
            /\ UNCHANGED exit_status
    /\ UNCHANGED << inputs, config, vault_name, secret_mapping, missing_vars, idx,
                    credential, client, uploaded_count, failed_count, calls >>

(***************************************************************************)
(* create_secret_mapping, lines 87-123.                                    *)
(***************************************************************************)
\* app_config = config["applications"][app_name], once main has called the function.
app_config == config.applications[args.app]

\* if app_name not in config["applications"]
ValidateApp ==
    /\ pc = "validate_app"
    /\ steps' = Append(steps, "create_secret_mapping")
    /\ IF args.app \notin DOMAIN config.applications
       THEN /\ stdout' = Append(stdout, log_error("Application not found in configuration", args.app, 0))
            /\ Exit(1)
       ELSE /\ pc' = "validate_environment"
            /\ UNCHANGED << exit_status, stdout >>
    /\ UNCHANGED << inputs, config, vault_name, env_vars, secret_mapping, missing_vars, idx,
                    credential, client, uploaded_count, failed_count, calls >>

\* The test of the environment with the sys.exit(1) left out.
ValidateEnvironmentNoExit ==
    /\ pc = "validate_environment"
    /\ IF args.environment \notin app_config.environments
       THEN stdout' = Append(stdout, log_error("Environment not supported for application", args.environment, 0))
       ELSE UNCHANGED stdout
    /\ secret_mapping' = << >>
    /\ missing_vars' = << >>
    /\ idx' = 1
    /\ pc' = "map_secret"
    /\ UNCHANGED << inputs, config, vault_name, env_vars, credential, client,
                    uploaded_count, failed_count, exit_status, steps, calls >>

\* if environment not in app_config["environments"]; then the two empty collections.
ValidateEnvironment ==
    /\ pc = "validate_environment"
    /\ IF args.environment \notin app_config.environments
       THEN /\ stdout' = Append(stdout, log_error("Environment not supported for application", args.environment, 0))
            /\ Exit(1)
            /\ UNCHANGED << secret_mapping, missing_vars, idx >>
       ELSE /\ secret_mapping' = << >>
            /\ missing_vars' = << >>
            /\ idx' = 1
            /\ pc' = "map_secret"
            /\ UNCHANGED << exit_status, stdout >>
    /\ UNCHANGED << inputs, config, vault_name, env_vars, credential, client,
                    uploaded_count, failed_count, steps, calls >>

\* One iteration of: for secret_config in app_config["secrets"]
MapSecret ==
    /\ pc = "map_secret"
    /\ idx <= Len(app_config.secrets)
    /\ LET secret_config == app_config.secrets[idx]
           env_var == secret_config.env_var
           vault_key == secret_config.vault_key
           secret_name == SecretName(args.app, args.environment, vault_key)
       IN  IF env_var \in DOMAIN env_vars
           THEN /\ secret_mapping' = DictPut(secret_mapping, secret_name, env_vars[env_var])
                /\ UNCHANGED missing_vars
           ELSE /\ missing_vars' = Append(missing_vars, env_var)
                /\ UNCHANGED secret_mapping
    /\ idx' = idx + 1
    /\ UNCHANGED << inputs, pc, config, vault_name, env_vars, credential, client,
                    uploaded_count, failed_count, exit_status, steps, calls, stdout >>

\* After the loop: the warning about missing variables, the count, the return.
ReportMapping ==
    /\ pc = "map_secret"
    /\ idx > Len(app_config.secrets)
    /\ stdout' = stdout
           \o (IF missing_vars # << >>
               THEN << log_warning("Missing environment variables in .env file:", "", 0) >>
                    \o MissingLines(missing_vars)
               ELSE << >>)
           \o << log_info("Mapped {n} secrets for upload", "", Len(secret_mapping)) >>
    /\ pc' = "check_empty"
    /\ UNCHANGED << inputs, config, vault_name, env_vars, secret_mapping, missing_vars, idx,
                    credential, client, uploaded_count, failed_count, exit_status, steps, calls >>

(***************************************************************************)
(* main, lines 227-232, and upload_secrets, lines 126-177.                 *)
(***************************************************************************)
\* The test of the empty mapping without its return: upload_secrets is called anyway.
CheckEmptyNoReturn ==
    /\ pc = "check_empty"
    /\ IF secret_mapping = << >>
       THEN stdout' = Append(stdout, log_warning("No secrets to upload", "", 0))
       ELSE UNCHANGED stdout
    /\ pc' = "upload_secrets"
    /\ UNCHANGED << inputs, config, vault_name, env_vars, secret_mapping, missing_vars, idx,
                    credential, client, uploaded_count, failed_count, exit_status, steps, calls >>

\* if not secret_mapping: log_warning(...); return
CheckEmpty ==
    /\ pc = "check_empty"
    /\ IF secret_mapping = << >>
       THEN /\ stdout' = Append(stdout, log_warning("No secrets to upload", "", 0))
            /\ Exit(0)
       ELSE /\ pc' = "upload_secrets"
            /\ UNCHANGED << exit_status, stdout >>
    /\ UNCHANGED << inputs, config, vault_name, env_vars, secret_mapping, missing_vars, idx,
                    credential, client, uploaded_count, failed_count, steps, calls >>

\* What the dry-run branch prints, lines 131-142.
DryRunOutput ==
    << log_info("DRY RUN - Secrets that would be uploaded:", "", 0) >>
    \o DryRunLines(secret_mapping)
    \o << log_info("Total secrets to upload: {n}", "", Len(secret_mapping)) >>

\* The dry-run branch without its return: execution falls through to the connection.
DryRunNoReturn ==
    /\ pc = "upload_secrets"
    /\ args.dry_run
    /\ steps' = Append(steps, "upload_secrets")
    /\ stdout' = stdout \o DryRunOutput
    /\ pc' = "connect"
    /\ UNCHANGED << inputs, config, vault_name, env_vars, secret_mapping, missing_vars, idx,
                    credential, client, uploaded_count, failed_count, exit_status, calls >>

\* upload_secrets(vault_name, secret_mapping, True): the masked listing, then return.
DryRun ==
    /\ pc = "upload_secrets"
    /\ args.dry_run
    /\ steps' = Append(steps, "upload_secrets")
    /\ stdout' = stdout \o DryRunOutput
    /\ pc' = "finish"
    /\ UNCHANGED << inputs, config, vault_name, env_vars, secret_mapping, missing_vars, idx,
                    credential, client, uploaded_count, failed_count, exit_status, calls >>

\* upload_secrets in live mode is entered: the try block of lines 146-156 comes next.
EnterLive ==
    /\ pc = "upload_secrets"
    /\ ~args.dry_run
    /\ steps' = Append(steps, "upload_secrets")
    /\ pc' = "connect"
    /\ UNCHANGED << inputs, config, vault_name, env_vars, secret_mapping, missing_vars, idx,
                    credential, client, uploaded_count, failed_count, exit_status, calls,
                    stdout >>

\* The two constructors may raise; this is the except branch with the sys.exit(1) left out.
ConnectNoExit ==
    /\ pc = "connect"
    /\ \E outcome \in {"credential_error", "client_error", "ok"} :
        /\ credential' = (outcome # "credential_error")
        /\ client' = (outcome = "ok")
        /\ IF outcome = "ok"
           THEN stdout' = Append(stdout, log_info("Connected to Key Vault", vault_name, 0))
           ELSE stdout' = stdout \o
                    << log_error("Failed to connect to Key Vault", "", 0),
                       log_error("Make sure you're authenticated", "", 0) >>
    /\ uploaded_count' = 0
    /\ failed_count' = 0
    /\ idx' = 1
    /\ pc' = "set_secret"
    /\ UNCHANGED << inputs, config, vault_name, env_vars, secret_mapping, missing_vars,
                    exit_status, steps, calls >>

\* credential = DefaultAzureCredential(); client = SecretClient(...): either may raise.
Connect ==
    /\ pc = "connect"
    /\ \E outcome \in {"credential_error", "client_error", "ok"} :
        /\ credential' = (outcome # "credential_error")
        /\ client' = (outcome = "ok")
        /\ IF outcome = "ok"
           THEN /\ stdout' = Append(stdout, log_info("Connected to Key Vault", vault_name, 0))
                /\ uploaded_count' = 0
                /\ failed_count' = 0
                /\ idx' = 1
                /\ pc' = "set_secret"
                /\ UNCHANGED exit_status
           ELSE /\ stdout' = stdout \o
                       << log_error("Failed to connect to Key Vault", "", 0),
                          log_error("Make sure you're authenticated", "", 0) >>
                /\ Exit(1)
                /\ UNCHANGED << uploaded_count, failed_count, idx >>
    /\ UNCHANGED << inputs, config, vault_name, env_vars, secret_mapping, missing_vars,
                    steps, calls >>

\* The loop body with a failure ending the loop, as it would without the try.
SetSecretAbortOnFailure ==
    /\ pc = "set_secret"
    /\ idx <= Len(secret_mapping)
    /\ LET secret_name == secret_mapping[idx].name
           secret_value == secret_mapping[idx].value
       IN  \E ok \in BOOLEAN :
            /\ calls' = Append(calls, [name |-> secret_name, value |-> secret_value, ok |-> ok])
            /\ IF ok
               THEN /\ uploaded_count' = uploaded_count + 1
                    /\ UNCHANGED failed_count
                    /\ idx' = idx + 1
                    /\ stdout' = stdout \o << log_info("Uploading secret", secret_name, 0),
                                              log_success("Uploaded", secret_name, 0) >>
               ELSE /\ failed_count' = failed_count + 1
                    /\ UNCHANGED uploaded_count
                    /\ idx' = Len(secret_mapping) + 1
                    /\ stdout' = stdout \o << log_info("Uploading secret", secret_name, 0),
                                              log_error("Failed to upload", secret_name, 0) >>
    /\ UNCHANGED << inputs, pc, config, vault_name, env_vars, secret_mapping, missing_vars,
                    credential, client, exit_status, steps >>

\* One iteration of: for secret_name, secret_value in secret_mapping.items()
SetSecret ==
    /\ pc = "set_secret"
    /\ idx <= Len(secret_mapping)
    /\ LET secret_name == secret_mapping[idx].name
           secret_value == secret_mapping[idx].value
       IN  \E ok \in BOOLEAN :
            /\ calls' = Append(calls, [name |-> secret_name, value |-> secret_value, ok |-> ok])
            /\ IF ok
               THEN /\ uploaded_count' = uploaded_count + 1
                    /\ UNCHANGED failed_count
                    /\ stdout' = stdout \o << log_info("Uploading secret", secret_name, 0),
                                              log_success("Uploaded", secret_name, 0) >>
               ELSE /\ failed_count' = failed_count + 1
                    /\ UNCHANGED uploaded_count
                    /\ stdout' = stdout \o << log_info("Uploading secret", secret_name, 0),
                                              log_error("Failed to upload", secret_name, 0) >>
    /\ idx' = idx + 1
    /\ UNCHANGED << inputs, pc, config, vault_name, env_vars, secret_mapping, missing_vars,
                    credential, client, exit_status, steps >>

\* After the loop: the summary of lines 173-177, and upload_secrets returns.
Summary ==
    /\ pc = "set_secret"
    /\ idx > Len(secret_mapping)
    /\ stdout' = stdout
           \o << log_success("Upload complete: {n} secrets uploaded", "", uploaded_count) >>
           \o (IF failed_count > 0
               THEN << log_warning("Failed uploads: {n} secrets", "", failed_count) >>
               ELSE << >>)
    /\ pc' = "finish"
    /\ UNCHANGED << inputs, config, vault_name, env_vars, secret_mapping, missing_vars, idx,
                    credential, client, uploaded_count, failed_count, exit_status, steps, calls >>

\* main, lines 234-236: the hint after a live run; main returns and the process exits 0.
Finish ==
    /\ pc = "finish"
    /\ IF ~args.dry_run
       THEN stdout' = stdout \o
                << log_info("To generate .env files from uploaded secrets, use:", "", 0),
                   log_info("  ./generate-env.sh", args.app, 0) >>
       ELSE UNCHANGED stdout
    /\ Exit(0)
    /\ UNCHANGED << inputs, config, vault_name, env_vars, secret_mapping, missing_vars, idx,
                    credential, client, uploaded_count, failed_count, steps, calls >>

Next ==
    \/ LoadConfig
    \/ ReadVaultName
    \/ LoadEnvFile
    \/ ValidateApp
    \/ ValidateEnvironment
    \/ MapSecret
    \/ ReportMapping
    \/ CheckEmpty
    \/ DryRun
    \/ EnterLive
    \/ Connect
    \/ SetSecret
    \/ Summary
    \/ Finish

Spec == Init /\ [][Next]_vars

(***************************************************************************)
(* Vocabulary of the properties.                                           *)
(***************************************************************************)
PipelineOrder == << "load_config", "load_env_file", "create_secret_mapping", "upload_secrets" >>

\* The message m has been printed.
Printed(m) == \E i \in 1..Len(stdout) : stdout[i] = m

\* Some message with the text t has been printed.
PrintedText(t) == \E i \in 1..Len(stdout) : stdout[i].text = t

\* The messages of one level that have been printed, in order.
PrintedAt(level) == SelectSeq(stdout, LAMBDA m : m.level = level)

\* The step of PipelineOrder at which the files and the command line make the run
\* fail, 0 if none does.  A document without "vault_name" fails right after step 1.
FailingStep ==
    IF fs_config # "ok" \/ "vault_name" \notin DOMAIN cfg_file THEN 1
    ELSE IF fs_env # "ok" THEN 2
    ELSE IF args.app \notin DOMAIN cfg_file.applications THEN 3
    ELSE IF args.environment \notin cfg_file.applications[args.app].environments THEN 3
    ELSE 0

\* The except branch of the connection has run.
ConnectionFailed == Printed(log_error("Failed to connect to Key Vault", "", 0))

\* create_secret_mapping has returned.
Mapped == PrintedText("Mapped {n} secrets for upload")

\* The secret descriptors of the application of this run.
Descriptors == cfg_file.applications[args.app].secrets

\* Descriptor i's variable is a key of the loaded environment mapping.
Present(i) == Descriptors[i].env_var \in DOMAIN env_vars

\* The name the convention gives descriptor i.
NameOf(i) == args.app \o "-" \o args.environment \o "-" \o Descriptors[i].vault_key

\* The keys of the secret mapping, in order.
Keys == [i \in 1..Len(secret_mapping) |-> secret_mapping[i].name]

(***************************************************************************)
(* C1: in live mode, once the client exists, the vault receives one        *)
(* set_secret call per entry of the secret mapping, in mapping order,      *)
(* whatever calls failed; at the end of the loop uploaded_count +          *)
(* failed_count is the number of entries and failed_count is the number of *)
(* calls that raised.                                                      *)
(***************************************************************************)
C1_OneCallPerEntry ==
    /\ calls # << >> => client
    /\ client =>
        /\ ~args.dry_run
        /\ Len(calls) <= Len(secret_mapping)
        /\ \A i \in 1..Len(calls) :
              /\ calls[i].name = secret_mapping[i].name
              /\ calls[i].value = secret_mapping[i].value
        /\ uploaded_count + failed_count = Len(calls)
        /\ failed_count = Cardinality({i \in 1..Len(calls) : ~calls[i].ok})
        /\ pc \in {"finish", "exited"} =>
              /\ Len(calls) = Len(secret_mapping)
              /\ uploaded_count + failed_count = Len(secret_mapping)

C1_Witness ==
    /\ pc = "exited"
    /\ client
    /\ Len(secret_mapping) = 2
    /\ Len(calls) = 2
    /\ ~calls[1].ok
    /\ calls[2].ok

(***************************************************************************)
(* C2: with the dry-run flag set no set_secret call is made and neither a  *)
(* credential nor a client is created; upload_secrets prints one masked    *)
(* line per entry and returns.                                             *)
(***************************************************************************)
C2_DryRunTransmitsNothing ==
    args.dry_run =>
        /\ calls = << >>
        /\ ~credential
        /\ ~client
        /\ pc \notin {"connect", "set_secret"}
        /\ Len(steps) = 4 =>
              /\ pc \in {"finish", "exited"}
              /\ Len(PrintedAt("PRINT")) = Len(secret_mapping)

C2_Witness ==
    /\ args.dry_run
    /\ pc = "exited"
    /\ Len(steps) = 4
    /\ Len(secret_mapping) = 2

(***************************************************************************)
(* C3: the four steps run in the fixed order, and a fatal error of the     *)
(* configuration, the environment file, the application name or the        *)
(* environment ends the process with status 1 at its step: no later step   *)
(* runs, no client is created and no set_secret call is made.  The         *)
(* application is validated before the environment and both before any     *)
(* secret descriptor is processed.                                         *)
(***************************************************************************)
C3_FatalStopsPipeline ==
    /\ Len(steps) <= 4
    /\ steps = SubSeq(PipelineOrder, 1, Len(steps))
    /\ FailingStep # 0 =>
        /\ Len(steps) <= FailingStep
        /\ ~credential /\ ~client /\ calls = << >>
        /\ secret_mapping = << >> /\ missing_vars = << >> /\ idx = 1
        /\ ~Mapped
        /\ pc = "exited" => exit_status = 1 /\ Len(steps) = FailingStep
    /\ (Len(steps) >= 3 /\ args.app \notin DOMAIN cfg_file.applications) =>
        ~PrintedText("Environment not supported for application")
    /\ PrintedText("Environment not supported for application") =>
        /\ pc = "exited"
        /\ args.app \in DOMAIN cfg_file.applications

C3_Witness ==
    /\ pc = "exited"
    /\ exit_status = 1
    /\ steps = SubSeq(PipelineOrder, 1, 3)
    /\ args.app \in DOMAIN cfg_file.applications
    /\ args.environment \notin cfg_file.applications[args.app].environments
    /\ Len(Descriptors) = 2
    /\ \A i \in 1..2 : Descriptors[i].env_var \in DOMAIN env_vars

(***************************************************************************)
(* C4: in live mode a failure to create the credential or the client ends  *)
(* the process with status 1 before any set_secret call: no upload is      *)
(* attempted and neither the loop nor its summary is reached.              *)
(***************************************************************************)
C4_ConnectionFailureIsFatal ==
    ConnectionFailed =>
        /\ ~args.dry_run
        /\ ~client
        /\ pc = "exited"
        /\ exit_status = 1
        /\ calls = << >>
        /\ uploaded_count = 0 /\ failed_count = 0
        /\ ~PrintedText("Uploading secret")
        /\ ~PrintedText("Upload complete: {n} secrets uploaded")

C4_Witness ==
    /\ ConnectionFailed
    /\ credential
    /\ Len(secret_mapping) = 2

\* The descriptors whose variable is a key of the loaded environment mapping.
PresentSet == {i \in 1..Len(Descriptors) : Present(i)}

\* The last present descriptor that carries the vault_key of descriptor i.
LastWithKeyOf(i) ==
    CHOOSE j \in PresentSet :
        /\ Descriptors[j].vault_key = Descriptors[i].vault_key
        /\ \A k \in PresentSet : Descriptors[k].vault_key = Descriptors[i].vault_key => k <= j

\* The variables of the absent descriptors, in configuration order.
AbsentVars ==
    LET absent == SelectSeq(Descriptors, LAMBDA d : d.env_var \notin DOMAIN env_vars)
    IN  [i \in 1..Len(absent) |-> absent[i].env_var]

\* The secret mapping has exactly one entry for key k, and its value is v.
MapsTo(k, v) ==
    /\ \E p \in 1..Len(secret_mapping) :
          secret_mapping[p].name = k /\ secret_mapping[p].value = v
    /\ Cardinality({p \in 1..Len(secret_mapping) : secret_mapping[p].name = k}) = 1

(***************************************************************************)
(* C5, as claimed: for every configuration the key {app}-{environment}-    *)
(* {vault_key} of each present descriptor maps to the value of that        *)
(* descriptor's own variable; absent descriptors add no entry and are      *)
(* listed as missing in configuration order; no other key exists.          *)
(***************************************************************************)
C5_EachDescriptorOwnValue ==
    Mapped =>
        /\ \A i \in PresentSet : MapsTo(NameOf(i), env_vars[Descriptors[i].env_var])
        /\ missing_vars = AbsentVars
        /\ \A p \in 1..Len(secret_mapping) : \E i \in PresentSet : NameOf(i) = Keys[p]

(***************************************************************************)
(* C5, amended: the key of each present descriptor maps to the value of    *)
(* the variable of the last present descriptor with the same vault_key,    *)
(* which is the descriptor itself when no later present descriptor repeats *)
(* its vault_key; the rest as claimed.                                     *)
(***************************************************************************)
C5_LastDescriptorWins ==
    Mapped =>
        /\ \A i \in PresentSet :
              MapsTo(NameOf(i), env_vars[Descriptors[LastWithKeyOf(i)].env_var])
        /\ missing_vars = AbsentVars
        /\ \A p \in 1..Len(secret_mapping) : \E i \in PresentSet : NameOf(i) = Keys[p]

C5_Witness ==
    /\ Mapped
    /\ Len(Descriptors) = 2
    /\ PresentSet = {1, 2}
    /\ Descriptors[1].vault_key = Descriptors[2].vault_key
    /\ env_vars[Descriptors[1].env_var] # env_vars[Descriptors[2].env_var]
    /\ Len(secret_mapping) = 1
    /\ secret_mapping[1].value = env_vars[Descriptors[2].env_var]

C7_MaskedValue ==
    LET lines == PrintedAt("PRINT")
    IN  /\ Len(lines) \in {0, Len(secret_mapping)}
        /\ \A i \in 1..Len(lines) :
            LET v == secret_mapping[i].value
                m == lines[i].arg
            IN  /\ lines[i].text = secret_mapping[i].name
                /\ Len(v) > 4 =>
                      /\ Len(m) = Len(v)
                      /\ SubSeq(m, 1, 4) = SubSeq(v, 1, 4)
                      /\ \A j \in 5..Len(v) : SubSeq(m, j, j) = "*"
                /\ Len(v) <= 4 => m = "****"

C7_Witness ==
    LET lines == PrintedAt("PRINT")
    IN  /\ Len(lines) = 2
        /\ secret_mapping[1].value = "abcd"
        /\ lines[1].arg = "****"
        /\ secret_mapping[2].value = "s3cr3t-pw"
        /\ lines[2].arg = "s3cr*****"

(***************************************************************************)
(* C8: the mapping load_env_file returns has no entry with an empty or     *)
(* absent value and no key that begins with `#`; every other parsed entry  *)
(* is kept with its key and value, and the reported count is the size of   *)
(* the mapping.                                                            *)
(***************************************************************************)
C8_LoadedMapping ==
    PrintedText("Loaded {n} environment variables") =>
        /\ DOMAIN env_vars \subseteq DOMAIN dotenv
        /\ \A k \in DOMAIN env_vars : env_vars[k] # "" /\ SubSeq(k, 1, 1) # "#"
        /\ \A k \in DOMAIN dotenv :
              (dotenv[k] \notin {{}, {""}} /\ SubSeq(k, 1, 1) # "#") =>
                  k \in DOMAIN env_vars /\ dotenv[k] = {env_vars[k]}
        /\ Printed(log_info("Loaded {n} environment variables", "", Cardinality(DOMAIN env_vars)))

C8_Witness ==
    /\ PrintedText("Loaded {n} environment variables")
    /\ DOMAIN dotenv = {"DB_URL", "API_KEY", "#NOTE"}
    /\ dotenv["DB_URL"] = {""}
    /\ dotenv["API_KEY"] = {"abcd"}
    /\ DOMAIN env_vars = {"API_KEY"}

(***************************************************************************)
(* C9, as claimed: for every accepted configuration, repeated vault keys   *)
(* included, the secret mapping has as many entries as there are present   *)
(* descriptors, and entries plus missing variables is the number of        *)
(* descriptors.                                                            *)
(***************************************************************************)
C9_OneEntryPerPresentDescriptor ==
    Mapped =>
        /\ Len(secret_mapping) = Cardinality(PresentSet)
        /\ Len(secret_mapping) + Len(missing_vars) = Len(Descriptors)

(***************************************************************************)
(* C9, amended: the secret mapping has as many entries as there are        *)
(* distinct vault keys among the present descriptors, and one missing      *)
(* variable per absent descriptor; so it has one entry per present         *)
(* descriptor, and entries plus missing variables is the number of         *)
(* descriptors, when the present descriptors carry distinct vault keys,    *)
(* and fewer entries when a vault key is repeated.                         *)
(***************************************************************************)
C9_OneEntryPerPresentVaultKey ==
    Mapped =>
        LET keys == {Descriptors[i].vault_key : i \in PresentSet}
        IN  /\ Len(secret_mapping) = Cardinality(keys)
            /\ Len(missing_vars) = Len(Descriptors) - Cardinality(PresentSet)
            /\ Cardinality(keys) = Cardinality(PresentSet) =>
                  /\ Len(secret_mapping) = Cardinality(PresentSet)
                  /\ Len(secret_mapping) + Len(missing_vars) = Len(Descriptors)
            /\ Cardinality(keys) < Cardinality(PresentSet) =>
                  Len(secret_mapping) + Len(missing_vars) < Len(Descriptors)

C9_Witness ==
    /\ Mapped
    /\ Len(Descriptors) = 2
    /\ PresentSet = {1, 2}
    /\ Descriptors[1].vault_key = Descriptors[2].vault_key
    /\ Descriptors[1].env_var # Descriptors[2].env_var
    /\ Len(secret_mapping) = 1
    /\ missing_vars = << >>

(***************************************************************************)
(* C10: a configured variable that the environment file defines with an    *)
(* empty value is treated as one the file does not define: it is not       *)
(* loaded, it is listed as missing and gets no entry, so no set_secret     *)
(* call carries an empty value and no dry-run line is printed for one.     *)
(***************************************************************************)
C10_EmptyIsMissing ==
    LET Defined(k) == k \in DOMAIN dotenv /\ dotenv[k] \notin {{}, {""}}
        undefined == SelectSeq(Descriptors, LAMBDA d : ~Defined(d.env_var))
    IN  /\ PrintedText("Loaded {n} environment variables") =>
              \A k \in DOMAIN dotenv : dotenv[k] = {""} => k \notin DOMAIN env_vars
        /\ Mapped =>
              /\ missing_vars = [i \in 1..Len(undefined) |-> undefined[i].env_var]
              /\ Len(secret_mapping) <= Len(Descriptors) - Len(undefined)
        /\ \A p \in 1..Len(secret_mapping) : secret_mapping[p].value # ""
        /\ \A c \in 1..Len(calls) : calls[c].value # ""
        /\ Len(PrintedAt("PRINT")) \in {0, Len(secret_mapping)}

C10_Witness ==
    /\ pc = "exited"
    /\ FailingStep = 0
    /\ ~args.dry_run
    /\ Len(Descriptors) = 2
    /\ Descriptors[1].env_var = "DB_URL"
    /\ Descriptors[2].env_var = "API_KEY"
    /\ Descriptors[1].vault_key # Descriptors[2].vault_key
    /\ "DB_URL" \in DOMAIN dotenv /\ dotenv["DB_URL"] = {""}
    /\ "API_KEY" \in DOMAIN dotenv /\ dotenv["API_KEY"] = {"abcde"}
    /\ missing_vars = << "DB_URL" >>
    /\ Len(calls) = 1
    /\ calls[1].value = "abcde"

====
